---- MODULE Spec2Model ----
(***************************************************************************)
(* Model of the rivers context tree (src/context/context.go) and of the    *)
(* stream Reader/Writer pair built on it (src/stream/stream.go).           *)
(*                                                                         *)
(* A context node wraps a Go standard cancelable context: its Done signal  *)
(* is closed by its own cancel function or by the cancellation of the      *)
(* standard context it was derived from.  A stream is a buffered Go        *)
(* channel bound to one node.  Writer.Write is a loop of two selects per   *)
(* item, so a Write is modelled as a task that takes one step per select;  *)
(* the non-blocking operations (Close, NewDownstream, Read of an available *)
(* item) are one step each.                                                *)
(***************************************************************************)
EXTENDS Integers, Sequences, FiniteSets, TLC

\* Bounds of the model.
MaxNodes == 5       \* context nodes ever created by CtxSpec (the root included)
MaxStreams == 2     \* context nodes, each with its stream, ever created by Spec
MaxTasks == 1       \* tasks calling Writer.Write, one call each
MaxLen == 2         \* items passed to one Write call
MaxBuffer == 1      \* stands for DefaultConfig.BufferSize (1000 in the source)
MaxCallers == 2     \* goroutines calling NewChild concurrently in RaceSpec

Nodes == 1..MaxNodes
Tasks == 1..MaxTasks
NoNode == 0
Root == 1

\* The goroutines that call NewChild concurrently in RaceSpec, and the value
\* of calls[g] while g is not inside a NewChild call.
Callers == 1..MaxCallers
NoCall == [pc |-> "idle", p |-> NoNode, c |-> NoNode, seen |-> <<>>]

\* context.go 8-14: the configuration every context is created with.
DefaultConfig == [Timeout |-> 5, BufferSize |-> MaxBuffer]

\* context.go 17-22: the zero value of Config, held by the nodes that do not
\* exist yet.
ZeroConfig == [Timeout |-> 0, BufferSize |-> 0]

\* The err arguments of Reader.Close(err) and Writer.Close(err): nil for a
\* graceful close, an error for a failure of the stage.
Causes == {"nil", "Failure"}

VARIABLES
    nctx,       \* number of context nodes created so far: nodes 1..nctx exist
    parent,     \* parent[n]: the node captured by n's cancelWithPropagation, NoNode for the root
    children,   \* children[n]: the children slice of node n
    config,     \* config[n]: the Config of node n
    done,       \* done[n]: the Done channel of n's standard context is closed
    ch,         \* ch[n]: content of the channel of the stream bound to node n
    chClosed,   \* chClosed[n]: close(ch) has been executed on that channel
    received,   \* received[n]: the items a reader has taken from Read() of that stream
    pc,         \* pc[t]: position of task t in its Write call
    wctx,       \* wctx[t]: the node of the stream whose Writer task t calls
    args,       \* args[t]: the items of the call Write(items...)
    idx,        \* idx[t]: index in args[t] of the item the range loop is at
    ret,        \* ret[t]: the error the call returned ("nil" for no error)
    doneAtCall, \* doneAtCall[t]: the context was done when Write was called
    closePanic, \* a call of Writer.Close has panicked: close of closed channel
    eos,        \* eos[n]: a receive from Read() of that stream found it closed and drained
    age,        \* age[n]: time since node n was created, in the unit of Config.Timeout
    calls       \* calls[g]: the NewChild call that goroutine g is executing

vars == <<nctx, parent, children, config, done, ch, chClosed, received,
          pc, wctx, args, idx, ret, doneAtCall, closePanic, eos, age, calls>>

\* What the operations of context.go and stream.go never write when they run
\* as one step: the clock and the NewChild calls in progress.
envVars == <<age, calls>>

ctxVars == <<nctx, parent, children, config>>
taskVars == <<pc, wctx, args, idx, ret, doneAtCall>>

Created == 1..nctx

\* The items task t passes to Write when it writes n items: distinct values.
ItemsOf(t, n) == [i \in 1..n |-> 10 * t + i]

----------------------------------------------------------------------------
(* Context tree *)

\* a is n or an ancestor of n in the chain of standard contexts.
RECURSIVE DerivedFrom(_, _)
DerivedFrom(n, a) ==
    IF n = a THEN TRUE
    ELSE IF parent[n] = NoNode THEN FALSE
    ELSE DerivedFrom(parent[n], a)

\* Mutant of StdCancel: cancel flips the done flag of the contexts it reaches
\* instead of closing their Done channels once and for all.
StdCancel_Toggle(d, n) ==
    [m \in Nodes |-> IF m \in Created /\ DerivedFrom(m, n) THEN ~d[m] ELSE d[m]]

\* The standard cancel function of node n's context: closes the Done channel
\* of n and of every context derived from it.
StdCancel(d, n) == [m \in Nodes |-> d[m] \/ (m \in Created /\ DerivedFrom(m, n))]

\* Mutant of ChildDone: the default case of the select goes on with the loop
\* instead of returning, so an open child does not stop Close.
ChildDone_Ignored(d, c) == TRUE

\* The select of Close on one child: is child.Done() closed?
ChildDone(d, c) == d[c]

\* Every child in the children slice of n is done.
AllChildrenDone(d, n) ==
    \A i \in 1..Len(children[n]) : ChildDone(d, children[n][i])

\* context.Close: returns at the first child that is not done, else calls
\* ctx.cancel; for a child node that is cancelWithPropagation, which cancels
\* the node and then calls parent.Close().
RECURSIVE CloseFn(_, _)

\* Mutant of CloseFn: cancelWithPropagation calls parent.Close() without
\* cancelling the node itself.
CloseFn_NoOwnCancel(d, n) ==
    IF ~AllChildrenDone(d, n) THEN d
    ELSE IF parent[n] = NoNode THEN StdCancel(d, n)
    ELSE CloseFn(d, parent[n])

\* Mutant of CloseFn: the cancel function of a child cancels the node and
\* does not call parent.Close().
CloseFn_NoPropagation(d, n) ==
    IF ~AllChildrenDone(d, n) THEN d ELSE StdCancel(d, n)

CloseFn(d, n) ==
    IF ~AllChildrenDone(d, n) THEN d
    ELSE IF parent[n] = NoNode THEN StdCancel(d, n)
    ELSE CloseFn(StdCancel(d, n), parent[n])

Close(n) == done' = CloseFn(done, n)

\* ctx.Err() of the embedded standard context.
Err(n) == IF done[n] THEN "Canceled" ELSE "nil"

\* Mutant of NewChild: the child is built without parent.config and keeps the
\* zero value of Config.
NewChild_ZeroConfig(p, c) ==
    /\ nctx' = c
    /\ parent' = [parent EXCEPT ![c] = p]
    /\ children' = [children EXCEPT ![p] = Append(@, c)]
    /\ config' = [config EXCEPT ![c] = ZeroConfig]
    /\ done' = [done EXCEPT ![c] = done[p]]

\* context.NewChild: a context derived from the parent's standard context
\* (born done when the parent is done), the parent's config, appended to the
\* parent's children.
NewChild(p, c) ==
    /\ nctx' = c
    /\ parent' = [parent EXCEPT ![c] = p]
    /\ children' = [children EXCEPT ![p] = Append(@, c)]
    /\ config' = [config EXCEPT ![c] = config[p]]
    /\ done' = [done EXCEPT ![c] = done[p]]

\* stream.New: a channel of capacity ctx.Config().BufferSize.
New(c) ==
    /\ ch' = [ch EXCEPT ![c] = <<>>]
    /\ chClosed' = [chClosed EXCEPT ![c] = FALSE]

Cap(n) == config[n].BufferSize

----------------------------------------------------------------------------
(* Initial state: stream.New(context.New()) *)

Init ==
    /\ nctx = 1
    /\ parent = [n \in Nodes |-> NoNode]
    /\ children = [n \in Nodes |-> <<>>]
    /\ config = [n \in Nodes |-> IF n = Root THEN DefaultConfig ELSE ZeroConfig]
    /\ done = [n \in Nodes |-> FALSE]
    /\ ch = [n \in Nodes |-> <<>>]
    /\ chClosed = [n \in Nodes |-> FALSE]
    /\ received = [n \in Nodes |-> <<>>]
    /\ pc = [t \in Tasks |-> "idle"]
    /\ wctx = [t \in Tasks |-> Root]
    /\ args = [t \in Tasks |-> <<>>]
    /\ idx = [t \in Tasks |-> 1]
    /\ ret = [t \in Tasks |-> "nil"]
    /\ doneAtCall = [t \in Tasks |-> FALSE]
    /\ closePanic = FALSE
    /\ eos = [n \in Nodes |-> FALSE]
    /\ age = [n \in Nodes |-> 0]
    /\ calls = [g \in Callers |-> NoCall]

----------------------------------------------------------------------------
(* Tasks parked in the inner select of writer.write *)

\* The tasks parked in the inner select of a write on the stream of node n:
\* the channel was full and open and the context not done when they polled.
Parked(n) == {t \in Tasks : pc[t] = "parked" /\ wctx[t] = n}

\* Mutant of WakeDone: the inner select has no Done case, so closing the Done
\* channel wakes nobody.
WakeDone_None(p, d) == p

\* Closing a Done channel makes every task parked in a select on it runnable,
\* with the Done case chosen: p is pc, d the Done channels after the close.
WakeDone(p, d) ==
    [t \in Tasks |-> IF p[t] = "parked" /\ d[wctx[t]] THEN "aborting" ELSE p[t]]

\* close(ch) on the channel of node n makes every task still parked in a
\* send on it panic (send on closed channel).
WakeClosed(p, n) ==
    [t \in Tasks |-> IF p[t] = "parked" /\ wctx[t] = n THEN "panic" ELSE p[t]]

\* The Write call of task t returns e.
Return(t, e) ==
    /\ pc' = [pc EXCEPT ![t] = "returned"]
    /\ ret' = [ret EXCEPT ![t] = e]

\* The send of item idx[t] of task t has completed: writer.write returns nil
\* and the range loop of Write goes on to the next item, or Write returns nil.
Sent(t) ==
    /\ idx' = [idx EXCEPT ![t] = @ + 1]
    /\ IF idx[t] = Len(args[t])
       THEN Return(t, "nil")
       ELSE pc' = [pc EXCEPT ![t] = "check"] /\ UNCHANGED ret

----------------------------------------------------------------------------
(* Reader *)

\* reader.NewDownstream: New(reader.ctx.NewChild()).
NewDownstream(p) ==
    /\ p \in Created
    /\ nctx < MaxStreams
    /\ NewChild(p, nctx + 1)
    /\ New(nctx + 1)
    /\ UNCHANGED <<received, taskVars, closePanic, eos, envVars>>

\* Mutant of ReaderClose: the Reader closes the channel as the Writer does.
ReaderClose_ClosesBuffer(n, err) ==
    /\ n \in Created
    /\ err \in Causes
    /\ Close(n)
    /\ chClosed' = [chClosed EXCEPT ![n] = TRUE]
    /\ pc' = WakeClosed(WakeDone(pc, CloseFn(done, n)), n)
    /\ UNCHANGED <<ctxVars, ch, received, wctx, args, idx, ret, doneAtCall,
                   closePanic, eos, envVars>>

\* reader.Close(err): forwards to the context's Close.  context.Close takes
\* no argument and the context struct has no field for a cause: err is not
\* recorded anywhere.
ReaderClose(n, err) ==
    /\ n \in Created
    /\ err \in Causes
    /\ UNCHANGED <<ctxVars, ch, chClosed, received, wctx, args, idx, ret,
                   doneAtCall, closePanic, eos, envVars>>
    /\ Close(n)
    /\ pc' = WakeDone(pc, CloseFn(done, n))

\* A receive from reader.Read() that finds an item in the channel: it takes
\* the head; when a sender is parked on the full channel, the receive puts
\* that sender's item at the tail and makes the sender runnable.
Read(n) ==
    /\ n \in Created
    /\ Len(ch[n]) > 0
    /\ received' = [received EXCEPT ![n] = Append(@, Head(ch[n]))]
    /\ IF Parked(n) = {}
       THEN /\ ch' = [ch EXCEPT ![n] = Tail(@)]
            /\ UNCHANGED <<pc, idx, ret>>
       ELSE \E t \in Parked(n) :
            /\ ch' = [ch EXCEPT ![n] = Append(Tail(@), args[t][idx[t]])]
            /\ Sent(t)
    /\ UNCHANGED <<ctxVars, done, chClosed, wctx, args, doneAtCall, closePanic,
                   eos, envVars>>

\* Mutant of ReadClosed: a receive reports the closed channel as soon as it
\* is closed, whether or not items are still buffered.
ReadClosed_BeforeDrained(n) ==
    /\ n \in Created
    /\ chClosed[n]
    /\ eos' = [eos EXCEPT ![n] = TRUE]
    /\ UNCHANGED <<ctxVars, done, ch, chClosed, received, taskVars,
                   closePanic, envVars>>

\* A receive from reader.Read() on a channel that is closed and drained: it
\* does not block and reports the closed channel (the zero value, ok false).
ReadClosed(n) ==
    /\ n \in Created
    /\ chClosed[n]
    /\ ch[n] = <<>>
    /\ eos' = [eos EXCEPT ![n] = TRUE]
    /\ UNCHANGED <<ctxVars, done, ch, chClosed, received, taskVars,
                   closePanic, envVars>>

----------------------------------------------------------------------------
(* Writer *)

\* writer.Close(err): ctx.Close(err), with err dropped as in reader.Close,
\* then the deferred close(writer.ch), which panics on a channel that is
\* already closed.
WriterClose(n, err) ==
    /\ n \in Created
    /\ err \in Causes
    /\ Close(n)
    /\ IF chClosed[n]
       THEN /\ closePanic' = TRUE
            /\ pc' = WakeDone(pc, CloseFn(done, n))
            /\ UNCHANGED chClosed
       ELSE /\ chClosed' = [chClosed EXCEPT ![n] = TRUE]
            /\ pc' = WakeClosed(WakeDone(pc, CloseFn(done, n)), n)
            /\ UNCHANGED closePanic
    /\ UNCHANGED <<ctxVars, ch, received, wctx, args, idx, ret, doneAtCall,
                   eos, envVars>>

\* Task t calls writer.Write(items...) with n items on the stream of node s.
\* Tasks are interchangeable and start in the order of their numbers.
WriteCall(t, s, n) ==
    /\ pc[t] = "idle"
    /\ \A u \in Tasks : u < t => pc[u] # "idle"
    /\ s \in Created
    /\ wctx' = [wctx EXCEPT ![t] = s]
    /\ args' = [args EXCEPT ![t] = ItemsOf(t, n)]
    /\ idx' = [idx EXCEPT ![t] = 1]
    /\ doneAtCall' = [doneAtCall EXCEPT ![t] = done[s]]
    /\ pc' = [pc EXCEPT ![t] = "check"]
    /\ UNCHANGED <<ctxVars, done, ch, chClosed, received, ret, closePanic,
                   eos, envVars>>

\* Mutant of WriteCheck: the outer select has no Done case.
WriteCheck_NoDoneCase(t) ==
    /\ pc[t] = "check"
    /\ pc' = [pc EXCEPT ![t] = "select"]
    /\ UNCHANGED <<ctxVars, done, ch, chClosed, received, wctx, args, idx,
                   ret, doneAtCall, closePanic, eos, envVars>>

\* writer.write, outer select: the Done case when the context is done, else
\* the default case, which leads to the inner select.
WriteCheck(t) ==
    /\ pc[t] = "check"
    /\ IF done[wctx[t]]
       THEN Return(t, Err(wctx[t]))
       ELSE pc' = [pc EXCEPT ![t] = "select"] /\ UNCHANGED ret
    /\ UNCHANGED <<ctxVars, done, ch, chClosed, received, wctx, args, idx,
                   doneAtCall, closePanic, eos, envVars>>

\* The send case of the inner select can proceed: the channel has a free
\* slot, or it is closed (the send then panics: send on closed channel).
SendReady(n) == chClosed[n] \/ Len(ch[n]) < Cap(n)

\* Mutant of WriteSend: every iteration sends the last item of the call (the
\* loop variable captured instead of the item of this iteration).
WriteSend_LastItem(t) ==
    /\ pc[t] = "select"
    /\ SendReady(wctx[t])
    /\ IF chClosed[wctx[t]]
       THEN /\ pc' = [pc EXCEPT ![t] = "panic"]
            /\ UNCHANGED <<ch, idx, ret>>
       ELSE /\ ch' = [ch EXCEPT ![wctx[t]] = Append(@, args[t][Len(args[t])])]
            /\ Sent(t)
    /\ UNCHANGED <<ctxVars, done, chClosed, received, wctx, args, doneAtCall,
                   closePanic, eos, envVars>>

\* writer.write, inner select, case writer.ch <- data chosen among the ready
\* cases.
WriteSend(t) ==
    /\ pc[t] = "select"
    /\ SendReady(wctx[t])
    /\ IF chClosed[wctx[t]]
       THEN /\ pc' = [pc EXCEPT ![t] = "panic"]
            /\ UNCHANGED <<ch, idx, ret>>
       ELSE /\ ch' = [ch EXCEPT ![wctx[t]] = Append(@, args[t][idx[t]])]
            /\ Sent(t)
    /\ UNCHANGED <<ctxVars, done, chClosed, received, wctx, args, doneAtCall,
                   closePanic, eos, envVars>>

\* Mutant of WriteAbort: the Done case of the inner select does not return the
\* error, so write falls through to return nil and Write goes on with the
\* next item.
WriteAbort_Swallow(t) ==
    /\ pc[t] = "select"
    /\ done[wctx[t]]
    /\ Sent(t)
    /\ UNCHANGED <<ctxVars, done, ch, chClosed, received, wctx, args,
                   doneAtCall, closePanic, eos, envVars>>

\* writer.write, inner select, case <-writer.ctx.Done() chosen among the
\* ready cases.
WriteAbort(t) ==
    /\ pc[t] = "select"
    /\ done[wctx[t]]
    /\ Return(t, Err(wctx[t]))
    /\ UNCHANGED <<ctxVars, done, ch, chClosed, received, wctx, args, idx,
                   doneAtCall, closePanic, eos, envVars>>

\* writer.write, inner select with no case ready: the task parks until the
\* channel or the Done channel wakes it.
WritePark(t) ==
    /\ pc[t] = "select"
    /\ ~SendReady(wctx[t])
    /\ ~done[wctx[t]]
    /\ pc' = [pc EXCEPT ![t] = "parked"]
    /\ UNCHANGED <<ctxVars, done, ch, chClosed, received, wctx, args, idx,
                   ret, doneAtCall, closePanic, eos, envVars>>

\* A task woken by the Done channel is scheduled again: write returns
\* writer.ctx.Err() and so does Write.
WriteResume(t) ==
    /\ pc[t] = "aborting"
    /\ Return(t, Err(wctx[t]))
    /\ UNCHANGED <<ctxVars, done, ch, chClosed, received, wctx, args, idx,
                   doneAtCall, closePanic, eos, envVars>>

\* A step of task t inside its Write call.
WriteStep(t) ==
    \/ WriteCheck(t)
    \/ WriteSend(t)
    \/ WriteAbort(t)
    \/ WritePark(t)
    \/ WriteResume(t)

----------------------------------------------------------------------------
\* The err of a Close call is recorded nowhere, so the states of the pipeline
\* do not depend on it: the streams are closed gracefully here, and with any
\* err of Causes in CauseSpec.
Next ==
    \/ \E p \in Nodes : NewDownstream(p)
    \/ \E n \in Nodes : ReaderClose(n, "nil")
    \/ \E n \in Nodes : Read(n)
    \/ \E n \in Nodes : WriterClose(n, "nil")
    \/ \E t \in Tasks, s \in Nodes, n \in 1..MaxLen : WriteCall(t, s, n)
    \/ \E t \in Tasks : WriteStep(t)

Spec == Init /\ [][Next]_vars

\* The pipeline whose producer tasks all write to the stream of the root
\* context, downstreams being spawned and closed below it.
ProducerNext ==
    \/ \E p \in Nodes : NewDownstream(p)
    \/ \E n \in Nodes : ReaderClose(n, "nil")
    \/ \E n \in Nodes : Read(n)
    \/ \E n \in Nodes : WriterClose(n, "nil")
    \/ \E t \in Tasks, n \in 1..MaxLen : WriteCall(t, Root, n)
    \/ \E t \in Tasks : WriteStep(t)

\* The scheduler runs every runnable task: weak fairness of each task's steps.
LiveSpec ==
    Init /\ [][ProducerNext]_vars /\ \A t \in Tasks : WF_vars(WriteStep(t))

\* The pipeline whose stages close their streams gracefully or with an error.
CauseNext ==
    \/ \E p \in Nodes : NewDownstream(p)
    \/ \E n \in Nodes, err \in Causes : ReaderClose(n, err)
    \/ \E n \in Nodes : Read(n)
    \/ \E n \in Nodes, err \in Causes : WriterClose(n, err)
    \/ \E t \in Tasks, s \in Nodes, n \in 1..MaxLen : WriteCall(t, s, n)
    \/ \E t \in Tasks : WriteStep(t)

CauseSpec == Init /\ [][CauseNext]_vars

\* The pipeline whose readers also receive from streams that are closed and
\* drained.  ReadClosed writes eos alone and no operation reads eos, so the
\* other specifications leave the step out.
DrainNext ==
    \/ ProducerNext
    \/ \E n \in Nodes : ReadClosed(n)

\* Every stream has a task draining Read(): a receive that can proceed is
\* eventually executed.
DrainSpec ==
    /\ Init /\ [][DrainNext]_vars
    /\ \A n \in 1..MaxStreams : WF_vars(Read(n)) /\ WF_vars(ReadClosed(n))

----------------------------------------------------------------------------
(* The context tree on its own: NewChild and Close called directly on the  *)
(* nodes of a larger tree, no stream in use.                               *)

\* Context.NewChild called on node p.
ContextNewChild(p) ==
    /\ p \in Created
    /\ nctx < MaxNodes
    /\ NewChild(p, nctx + 1)
    /\ UNCHANGED <<ch, chClosed, received, taskVars, closePanic, eos, envVars>>

\* Context.Close called on node n.
ContextClose(n) ==
    /\ n \in Created
    /\ Close(n)
    /\ UNCHANGED <<ctxVars, ch, chClosed, received, taskVars, closePanic,
                   eos, envVars>>

CtxNext ==
    \/ \E p \in Nodes : ContextNewChild(p)
    \/ \E n \in Nodes : ContextClose(n)

CtxSpec == Init /\ [][CtxNext]_vars

----------------------------------------------------------------------------
(* The context tree with NewChild calls that overlap.  NewChild takes no     *)
(* lock: line 94 reads parent.children, appends and writes the slice back,   *)
(* and goroutines that do so concurrently race on it.                        *)

\* Goroutine g enters NewChild on node p and runs up to the read of
\* parent.children in line 94: the child's context is derived from the
\* parent's (lines 88-93) and g holds the slice it has read.
NewChildBegin(g, p) ==
    /\ calls[g] = NoCall
    /\ p \in Created
    /\ nctx < MaxNodes
    /\ nctx' = nctx + 1
    /\ parent' = [parent EXCEPT ![nctx + 1] = p]
    /\ config' = [config EXCEPT ![nctx + 1] = config[p]]
    /\ done' = [done EXCEPT ![nctx + 1] = done[p]]
    /\ calls' = [calls EXCEPT ![g] =
                    [pc |-> "append", p |-> p, c |-> nctx + 1,
                     seen |-> children[p]]]
    /\ UNCHANGED <<children, ch, chClosed, received, taskVars, closePanic,
                   eos, age>>

\* Goroutine g writes parent.children = append(<the slice it read>, child)
\* and returns the child.
NewChildAppend(g) ==
    /\ calls[g].pc = "append"
    /\ children' = [children EXCEPT
                        ![calls[g].p] = Append(calls[g].seen, calls[g].c)]
    /\ calls' = [calls EXCEPT ![g] = NoCall]
    /\ UNCHANGED <<nctx, parent, config, done, ch, chClosed, received,
                   taskVars, closePanic, eos, age>>

RaceNext ==
    \/ \E g \in Callers, p \in Nodes : NewChildBegin(g, p)
    \/ \E g \in Callers : NewChildAppend(g)
    \/ \E n \in Nodes : ContextClose(n)

RaceSpec == Init /\ [][RaceNext]_vars

----------------------------------------------------------------------------
(* The pipeline with the passage of time *)

\* One unit of time passes.  FromStdContext and NewChild derive the context
\* with WithCancel and start no timer, and nothing reads Config.Timeout, so
\* the passage of time changes the age of the nodes and nothing else.  The
\* age stops counting at the node's Timeout.
Tick ==
    /\ \E n \in Created : age[n] < config[n].Timeout
    /\ age' = [n \in Nodes |->
                IF n \in Created /\ age[n] < config[n].Timeout
                THEN age[n] + 1 ELSE age[n]]
    /\ UNCHANGED <<ctxVars, done, ch, chClosed, received, taskVars,
                   closePanic, eos, calls>>

TimedNext == Next \/ Tick

TimedSpec == Init /\ [][TimedNext]_vars

----------------------------------------------------------------------------
(* Properties of the context tree, checked under CtxSpec and Spec *)

\* Node n has a child in its children slice that is not done.
HasOpenChild(n) == \E i \in 1..Len(children[n]) : ~done[children[n][i]]

\* A Close(err) step of the Reader or the Writer of the stream of node n.
StreamClose(n, err) == ReaderClose(n, err) \/ WriterClose(n, err)

\* The Close step on node n, whoever calls it.
CloseCalled(n) == ContextClose(n) \/ \E err \in Causes : StreamClose(n, err)

C1_NoOpenChildOfDone == \A n \in Created : done[n] => ~HasOpenChild(n)

C1_CloseWithOpenChildIsNoop ==
    \A n \in Created : (HasOpenChild(n) /\ CloseCalled(n)) => done' = done

\* C1: a done node has no open child in its child set, and Close on a node
\* with at least one open child changes no node's state.
C1_DoneNodeHasNoOpenChild ==
    []C1_NoOpenChildOfDone /\ [][C1_CloseWithOpenChildIsNoop]_vars

\* An open node with a done child and an open child: the done child's close
\* called Close on this node, which the open child turned into a no-op.
C1_Witness ==
    \E n \in Created :
        /\ ~done[n]
        /\ HasOpenChild(n)
        /\ \E i \in 1..Len(children[n]) : done[children[n][i]]

\* C8: in every reachable state, Close on an open node with no open child in
\* its child set yields the node done, and every such Close step does so.
C8_CloseWithoutOpenChildSucceeds ==
    /\ [](\A n \in Created :
            (~done[n] /\ ~HasOpenChild(n)) => CloseFn(done, n)[n])
    /\ [][\A n \in Created :
            (~done[n] /\ ~HasOpenChild(n) /\ CloseCalled(n)) => done'[n]]_vars

\* A done node under an open parent: the node closed at its own Close call
\* (a node is never born done under an open parent).
C8_Witness ==
    \E n \in Created :
        /\ done[n]
        /\ parent[n] # NoNode
        /\ ~done[parent[n]]

C9_ClosedChildrenImplyClosed ==
    \A n \in Created : (Len(children[n]) > 0 /\ ~HasOpenChild(n)) => done[n]

C9_LeavesClosedImplyAllClosed ==
    (\A n \in Created : children[n] = <<>> => done[n])
        => \A n \in Created : done[n]

C9_LastChildClosesParent ==
    \A n \in Created : (HasOpenChild(n) /\ ~HasOpenChild(n)') => done'[n]

\* C9: the step in which the last open child of a node closes also closes
\* the node, so a node whose children are all done is done, and once every
\* leaf is done every node up to the root is done.
C9_ClosePropagatesToAncestors ==
    /\ []C9_ClosedChildrenImplyClosed
    /\ []C9_LeavesClosedImplyAllClosed
    /\ [][C9_LastChildClosesParent]_vars

\* The root is done below a chain of two levels, in a tree where some node
\* has two children.
C9_Witness ==
    /\ done[Root]
    /\ \E n \in Created : parent[n] # NoNode /\ parent[parent[n]] = Root
    /\ \E n \in Created : Len(children[n]) >= 2

\* C10: once a node is done, no step (a Close call on it by a Reader, a
\* Writer or a child's propagation included) changes its done signal, its
\* error or its config, and only NewChild changes its child set.
C10_ClosesAtMostOnce ==
    [][\A n \in Created :
          done[n] =>
              /\ done'[n]
              /\ Err(n)' = Err(n)
              /\ config'[n] = config[n]
              /\ (nctx' = nctx => children'[n] = children[n])]_vars

\* Writer.Close was called twice on the root, which had no child: the first
\* call closed the node, the second was a Close of a done node.
C10_Witness == nctx = 1 /\ done[Root] /\ closePanic

----------------------------------------------------------------------------
(* Properties of the stream, checked under Spec and LiveSpec *)

\* C2: a Write called on a done context returns a non-nil error without
\* reaching the inner select, and no step of that call changes any buffer.
C2_WriteOnDoneContextFails ==
    /\ [](\A t \in Tasks : doneAtCall[t] =>
            /\ pc[t] \in {"check", "returned"}
            /\ idx[t] = 1
            /\ (pc[t] = "returned" => ret[t] # "nil"))
    /\ [][\A t \in Tasks : (doneAtCall[t] /\ pc'[t] # pc[t]) => ch' = ch]_vars

\* Such a call has returned although the buffer was empty and open.
C2_Witness ==
    \E t \in Tasks :
        /\ doneAtCall[t]
        /\ pc[t] = "returned"
        /\ ch[wctx[t]] = <<>>
        /\ ~chClosed[wctx[t]]

\* An item is added to the channel of node n in this step.
Enqueued(n) == ch'[n] # ch[n] /\ (ch[n] = <<>> \/ ch'[n] # Tail(ch[n]))

\* C3: no item is added to a buffer whose context is already done.
C3_NoEnqueueOnceDone ==
    [][\A n \in Nodes : Enqueued(n) => ~done[n]]_vars

\* C4: no call of Writer.Close panics.
C4_CloseNeverPanics == ~closePanic

\* No other task writes to the stream task t writes to.
Solo(t) == \A u \in Tasks \ {t} : pc[u] = "idle" \/ wctx[u] # wctx[t]

IsPrefix(a, b) == Len(a) <= Len(b) /\ a = SubSeq(b, 1, Len(a))

Blocked(t) ==
    /\ pc[t] = "parked"
    /\ Len(ch[wctx[t]]) = Cap(wctx[t])
    /\ ~done[wctx[t]]

\* C6: a buffer never holds more items than its capacity, and a Write that
\* is blocked on a full buffer leaves the block only when a Read puts its
\* item in the freed slot or when its context becomes done.
C6_Backpressure ==
    /\ [](\A n \in Nodes : Len(ch[n]) <= Cap(n))
    /\ [][\A t \in Tasks : (Blocked(t) /\ pc'[t] # "parked") =>
            \/ done'[wctx[t]]
            \/ /\ received'[wctx[t]] # received[wctx[t]]
               /\ ch'[wctx[t]] = Append(Tail(ch[wctx[t]]), args[t][idx[t]])]_vars

\* C7: a Write parked on a full buffer is woken in the step that makes its
\* context done, no parked Write has a done context, and a woken Write
\* eventually returns the context's error.
C7_BlockedWriteReturnsOnDone ==
    /\ [](\A t \in Tasks : pc[t] = "parked" => ~done[wctx[t]])
    /\ [][\A t \in Tasks : (pc[t] = "parked" /\ done'[wctx[t]]) =>
            pc'[t] = "aborting"]_vars
    /\ \A t \in Tasks :
          (pc[t] = "aborting") ~>
              (pc[t] = "returned" /\ ret[t] = "Canceled" /\ ret[t] = Err(wctx[t]))

\* A write parked on a full buffer that nobody drained has been woken by its
\* context becoming done.
C7_Witness ==
    \E t \in Tasks :
        /\ pc[t] = "aborting"
        /\ done[wctx[t]]
        /\ Len(ch[wctx[t]]) = Cap(wctx[t])
        /\ received[wctx[t]] = <<>>

----------------------------------------------------------------------------
(* Causes of closing, checked under CauseSpec *)

\* C11: the error of a node is the err of the Close(err) call that closed it,
\* and a Close(err) call on a node that is already done, whatever its err,
\* leaves the node's error as it was.
C11_FirstCauseWins ==
    [][\A n \in Created, e \in Causes :
          /\ (~done[n] /\ StreamClose(n, e) /\ done'[n]) => Err(n)' = e
          /\ (done[n] /\ StreamClose(n, e)) => Err(n)' = Err(n)]_vars

\* C12: a node whose Timeout has elapsed is done; the step in which the
\* Timeout of an open node elapses makes the node done with the
\* deadline-exceeded error and wakes every Write blocked on its full buffer
\* (which then returns the node's error).
C12_TimeoutClosesNode ==
    /\ [](\A n \in Created : age[n] >= config[n].Timeout => done[n])
    /\ [][\A n \in Created :
            (~done[n] /\ age[n] < config[n].Timeout
                      /\ age'[n] >= config[n].Timeout) =>
                /\ done'[n]
                /\ Err(n)' = "DeadlineExceeded"
                /\ \A t \in Tasks : (pc[t] = "parked" /\ wctx[t] = n) =>
                                        pc'[t] = "aborting"]_vars

\* C13: Err is nil while the node is open, it is still nil after a graceful
\* close (Close(nil)) has closed the node, and it becomes non-nil only in a
\* Close call that carries an error.
C13_ErrReportsCause ==
    /\ [](\A n \in Created : ~done[n] => Err(n) = "nil")
    /\ [][\A n \in Created :
            (~done[n] /\ StreamClose(n, "nil") /\ done'[n]) => Err(n)' = "nil"]_vars
    /\ [][\A n \in Created :
            (Err(n) = "nil" /\ Err(n)' # "nil") =>
                \E m \in Created : StreamClose(m, "Failure")]_vars

----------------------------------------------------------------------------
(* Direction of the cancellation, checked under CtxSpec *)

\* A Close call on node n or on a node below n (whose cancelWithPropagation
\* calls Close on the nodes above it).
ClosedFromBelow(n) == \E m \in Created : DerivedFrom(m, n) /\ CloseCalled(m)

\* The node created in this step, NoNode when the step creates none.
Born == IF nctx' # nctx THEN nctx' ELSE NoNode

\* C14: an existing node becomes done only in a Close attempt on itself (the
\* propagation of the close of a node below it included), never through an
\* ancestor, and a node is open when it is created, also under a parent that
\* is done.
C14_BottomUpOnly ==
    [][/\ \A n \in Created : (~done[n] /\ done'[n]) => ClosedFromBelow(n)
       /\ Born # NoNode => ~done'[Born]]_vars


----------------------------------------------------------------------------
(* Frame of the operations, checked under Spec *)

\* C15: a step that changes the content or the open/closed state of a buffer
\* is not a Reader.Close step, and a step that changes the open/closed state
\* of a buffer is a Writer.Close step on that stream and closes it.
C15_OnlyWriterClosesBuffer ==
    [][/\ \/ (ch' = ch /\ chClosed' = chClosed)
          \/ ~\E n \in Created, e \in Causes : ReaderClose(n, e)
       /\ \A n \in Nodes :
             chClosed'[n] # chClosed[n] =>
                 chClosed'[n] /\ \E e \in Causes : WriterClose(n, e)]_vars

\* The Reader of the root stream, which has no downstream, has closed the
\* context while an item was buffered: the buffer is still open and holds it.
C15_Witness ==
    /\ nctx = 1
    /\ done[Root]
    /\ ~chClosed[Root]
    /\ ch[Root] # <<>>

\* C16: a node is created with the config of its parent, no step changes the
\* config of an existing node, and the buffer of a stream never holds more
\* than its node's BufferSize, a Write blocking exactly when it holds that
\* many items.
C16_ConfigInherited ==
    /\ [][/\ Born # NoNode => config'[Born] = config[parent'[Born]]
           /\ \A n \in Created : config'[n] = config[n]]_vars
    /\ [](\A n \in Created :
            /\ config[n] = DefaultConfig
            /\ Len(ch[n]) <= config[n].BufferSize
            /\ \A t \in Tasks : (pc[t] = "parked" /\ wctx[t] = n) =>
                                    Len(ch[n]) = config[n].BufferSize)

\* A Write is blocked on the buffer of a downstream, which holds as many
\* items as the BufferSize its node has from its parent.
C16_Witness ==
    \E n \in Created, t \in Tasks :
        /\ parent[n] # NoNode
        /\ config[n] = config[parent[n]]
        /\ pc[t] = "parked" /\ wctx[t] = n
        /\ Len(ch[n]) = config[n].BufferSize

\* C17: the items a call has enqueued so far are exactly the items before the
\* one its loop is at; a call that returned an error did so on a done context,
\* with that context's error and at an item it did not enqueue; a call that
\* returned nil has enqueued every item; and nothing is enqueued for a call
\* that has returned.
C17_FailedWriteKeepsPrefix ==
    /\ [](\A t \in Tasks : (pc[t] # "idle" /\ Solo(t)) =>
            LET s == wctx[t]
            IN  /\ received[s] \o ch[s] = SubSeq(args[t], 1, idx[t] - 1)
                /\ (pc[t] = "returned" /\ ret[t] # "nil") =>
                       /\ done[s]
                       /\ ret[t] = Err(s)
                       /\ idx[t] <= Len(args[t])
                /\ (pc[t] = "returned" /\ ret[t] = "nil") =>
                       idx[t] = Len(args[t]) + 1)
    /\ [][\A t \in Tasks :
            (pc[t] = "returned" /\ Solo(t) /\ Solo(t)') =>
                ~Enqueued(wctx[t])]_vars

\* A call Write(i1, i2) has failed at i2 on a context that was closed after
\* i1 was enqueued: i1 is still in the buffer.
C17_Witness ==
    \E t \in Tasks :
        /\ pc[t] = "returned"
        /\ ret[t] = "Canceled"
        /\ Len(args[t]) = 2
        /\ idx[t] = 2
        /\ ch[wctx[t]] = <<args[t][1]>>

----------------------------------------------------------------------------
(* Draining a closed stream, checked under DrainSpec *)

\* C18: from the step that closes a buffer on, its items only move from the
\* buffer to the reader, in order; the reader gets the closed-channel signal
\* only from a closed buffer it has drained; and the draining tasks always
\* eventually have that signal from every buffer that is closed.
C18_DrainThenEndOfStream ==
    /\ [][\A n \in Created :
            chClosed'[n] => received'[n] \o ch'[n] = received[n] \o ch[n]]_vars
    /\ [](\A n \in Created : eos[n] => (chClosed[n] /\ ch[n] = <<>>))
    /\ []<>(\A n \in Created : chClosed[n] => (eos[n] /\ ch[n] = <<>>))

\* The reader of a stream has received items and then the closed-channel
\* signal, the context of the stream being still open (its close was put off
\* by an open downstream).
C18_Witness ==
    \E n \in Created :
        /\ eos[n]
        /\ received[n] # <<>>
        /\ ~done[n]

----------------------------------------------------------------------------
(* Concurrent NewChild calls, checked under RaceSpec *)

\* NewChild has returned node c to its caller.
Returned(c) == c \in Created \ {Root} /\ \A g \in Callers : calls[g].c # c

\* C19: every child that NewChild has returned is in the children of its
\* parent, and its parent is not done while it is open.
C19_NoChildRegistrationLost ==
    \A c \in Nodes : Returned(c) =>
        /\ \E i \in 1..Len(children[parent[c]]) : children[parent[c]][i] = c
        /\ done[parent[c]] => done[c]

\* C20: no Write sends on a buffer that Writer.Close has closed (in Go the
\* send panics: send on closed channel).
C20_NoSendOnClosedBuffer == \A t \in Tasks : pc[t] # "panic"

====
